---- MODULE Spec2Model ----
(***************************************************************************)
(* A model of pug's run state machine (package run), of the event broker   *)
(* it publishes on (package pubsub) and of the task scheduler (package     *)
(* task).                                                                  *)
(***************************************************************************)
EXTENDS Integers, Sequences, FiniteSets, TLC

VARIABLES
    run,        \* the Run: its Status, Error, Updated, ... fields
    now,        \* what time.Now() returns
    effects,    \* what the latest call on the run did outside the run, in
                \* order: after-update callback invocations, slog.Info records
    calls,      \* number of setErrored / updateStatus calls made so far
    last,       \* the latest call on the run: its name and its arguments
    subs,       \* the broker's subscriptions
    tasks,      \* the scheduler's tasks, by task id
    queue,      \* the scheduler's queue of task ids, in enqueue order
    wsAuto,     \* the AutoApply flag of each workspace, by workspace name
    runs,       \* the newRun calls made, in order: arguments and outcome
    dirs,       \* the directories os.MkdirAll has created
    logger,     \* the Logger: its serial, its Messages, what its file holds
    published,  \* the events published on the logger's broker, in order
    wres,       \* what the latest Write returned and how many events it published
    writes,     \* number of Write calls made so far
    tbl,        \* the table widget: the fields of Model[K, V]
    tlast,      \* the latest operation on the table, and whether it panicked
    rtbl,       \* the table of resources: the fields of Model[T]
    rlast       \* the latest message to the table of resources, and the ids
                \* of the entities announced and not deleted since

vars == <<run, now, effects, calls, last, subs, tasks, queue, wsAuto, runs, dirs,
          logger, published, wres, writes, tbl, tlast, rtbl, rlast>>

runVars == <<run, now, effects, calls, last>>

schedVars == <<tasks, queue>>

newVars == <<wsAuto, runs, dirs>>

logVars == <<logger, published, wres, writes>>

tblVars == <<tbl, tlast>>

resVars == <<rtbl, rlast>>

(***************************************************************************)
(* Bounds of the model.                                                    *)
(***************************************************************************)
MaxCalls == 3

\* The number of tasks enqueued, and the configured concurrency ceiling.
NumTasks == 3

maxTasks == 2

QueueCap == 2

\* Logger.Write calls made, and records in the bytes of one call
MaxWrites == 3

MaxRecords == 2

\* viewport.Height: the rows the viewport of a table shows when the table is
\* built
ViewHeight == 2

\* Heights of the table's header and of its filter widget
headerHeight == 1

filterHeight == 2

\* the height of the viewport of a table of resources
resViewHeight == 20

(***************************************************************************)
(* package run: Status                                                     *)
(***************************************************************************)
Pending == "pending"

Scheduled == "scheduled"

PlanQueued == "plan queued"

Planning == "planning"

Planned == "planned"

PlannedAndFinished == "planned&finished"

ApplyQueued == "apply queued"

Applying == "applying"

Applied == "applied"

Errored == "errored"

Canceled == "canceled"

Discarded == "discarded"

Status ==
    { Pending, Scheduled, PlanQueued, Planning, Planned, PlannedAndFinished,
      ApplyQueued, Applying, Applied, Errored, Canceled, Discarded }

\* The nil error, and the non-nil error values a caller passes to setErrored.
Nil == "nil"

Errors == {"err1", "err2"}

\* CreateOptions.afterUpdate: nil, or the callback the run service registers,
\* which publishes the run on the broker.
NoCallback == "nil"

PublishCallback == "publish"

\* A path is the sequence of its elements; filepath.Join leaves the empty
\* elements out.
Join(a, b) == SelectSeq(a \o b, LAMBDA e : e # "")

\* workspace.PugDirectory(name): the workspace's directory under .pug.
WorkspacePugDirectory(name) == Join(<<".pug">>, <<name>>)

\* Run.WorkspaceName
WorkspaceName(r) == r.Parent

\* Run.ModulePath
ModulePath(r) == <<r.Module>>

\* A faulty variant of PugDirectory: the run's id is left out of the path.
PugDirectory_noID(r) == WorkspacePugDirectory(WorkspaceName(r))

\* Run.PugDirectory, relative to the module's directory.
PugDirectory(r) == Join(WorkspacePugDirectory(WorkspaceName(r)), <<r.ID>>)

\* Run.PlanPath, relative to the module's directory.
PlanPath(r) == Join(PugDirectory(r), <<"plan.out">>)

\* The absent run (a nil *Run).
NoRun == [Status |-> "nil"]

\* The Run literal of newRun.  CreateOptions.PlanOnly is not copied: the
\* field keeps its zero value.
RunLiteral(ws, opts, env) ==
    [ ID          |-> env.id,
      Parent      |-> ws.Name,
      Module      |-> ws.Module,
      Status      |-> Pending,
      AutoApply   |-> ws.AutoApply,
      PlanOnly    |-> FALSE,
      Created     |-> env.now,
      Updated     |-> env.now,
      Error       |-> Nil,
      afterUpdate |-> opts.afterUpdate ]

\* A faulty variant of newRun: the workspace's AutoApply is not copied.
newRun_noAutoApply(ws, opts, env) ==
    LET r == [RunLiteral(ws, opts, env) EXCEPT !.AutoApply = FALSE]
    IN  IF env.mkdirOk
        THEN [run |-> r, err |-> Nil, mkdir |-> {Join(ModulePath(r), PugDirectory(r))},
              effects |-> <<>>]
        ELSE [run |-> NoRun, err |-> "mkdir", mkdir |-> {}, effects |-> <<>>]

\* A faulty variant of newRun: the new run is announced to the callback.
newRun_announced(ws, opts, env) ==
    LET r == RunLiteral(ws, opts, env)
    IN  IF env.mkdirOk
        THEN [run |-> r, err |-> Nil, mkdir |-> {Join(ModulePath(r), PugDirectory(r))},
              effects |-> IF r.afterUpdate # NoCallback
                          THEN <<[kind |-> "callback", status |-> r.Status,
                                  error |-> r.Error, updated |-> r.Updated]>>
                          ELSE <<>>]
        ELSE [run |-> NoRun, err |-> "mkdir", mkdir |-> {}, effects |-> <<>>]

\* A faulty variant of newRun: the error of os.MkdirAll is returned together
\* with the run, which has been announced to the callback.
newRun_runOnMkdirError(ws, opts, env) ==
    LET r == RunLiteral(ws, opts, env)
    IN  IF env.mkdirOk
        THEN [run |-> r, err |-> Nil, mkdir |-> {Join(ModulePath(r), PugDirectory(r))},
              effects |-> <<>>]
        ELSE [run |-> r, err |-> "mkdir", mkdir |-> {},
              effects |-> <<[kind |-> "callback", status |-> r.Status,
                             error |-> r.Error, updated |-> r.Updated]>>]

\* newRun(mod, ws, opts).  env is what the call reads from outside: the time,
\* the id resource.New gives the run, and whether os.MkdirAll succeeds.  The
\* result is the run (or none) and the error returned, the directory created
\* and the callback invocations and log records made.
newRun(ws, opts, env) ==
    LET r == RunLiteral(ws, opts, env)
    IN  IF env.mkdirOk
        THEN [run |-> r, err |-> Nil, mkdir |-> {Join(ModulePath(r), PugDirectory(r))},
              effects |-> <<>>]
        ELSE [run |-> NoRun, err |-> "mkdir", mkdir |-> {}, effects |-> <<>>]

\* Run.IsFinished
IsFinished(r) == r.Status \in {PlannedAndFinished, Applied, Errored, Canceled}

\* What the after-update callback sees of the run it is handed.
CallbackRecord(r) ==
    [kind |-> "callback", status |-> r.Status, error |-> r.Error, updated |-> r.Updated]

\* The slog.Info("completed run", ...) record.
LogRecord(r) ==
    [kind |-> "log", status |-> r.Status, error |-> r.Error, updated |-> r.Updated]

\* A faulty variant of updateStatus: the callback is invoked before the fields are written.
updateStatus_callbackFirst(st, status, t) ==
    LET fx1 == IF st.run.afterUpdate # NoCallback
               THEN Append(st.effects, CallbackRecord(st.run))
               ELSE st.effects
        r1  == [st.run EXCEPT !.Status = status, !.Updated = t]
        fx2 == IF IsFinished(r1) THEN Append(fx1, LogRecord(r1)) ELSE fx1
    IN  [run |-> r1, effects |-> fx2]

\* A faulty variant of updateStatus: the callback is invoked twice.
updateStatus_callbackTwice(st, status, t) ==
    LET r1  == [st.run EXCEPT !.Status = status, !.Updated = t]
        fx1 == IF r1.afterUpdate # NoCallback
               THEN st.effects \o <<CallbackRecord(r1), CallbackRecord(r1)>>
               ELSE st.effects
        fx2 == IF IsFinished(r1) THEN Append(fx1, LogRecord(r1)) ELSE fx1
    IN  [run |-> r1, effects |-> fx2]

\* Run.updateStatus, on st = [run, effects]; t is what time.Now() returns.
updateStatus(st, status, t) ==
    LET r1  == [st.run EXCEPT !.Status = status, !.Updated = t]
        fx1 == IF r1.afterUpdate # NoCallback
               THEN Append(st.effects, CallbackRecord(r1))
               ELSE st.effects
        fx2 == IF IsFinished(r1) THEN Append(fx1, LogRecord(r1)) ELSE fx1
    IN  [run |-> r1, effects |-> fx2]

\* A faulty variant of setErrored: the status is updated before the error is stored.
setErrored_errorLast(st, err, t) ==
    LET st1 == updateStatus(st, Errored, t)
    IN  [st1 EXCEPT !.run.Error = err]

\* Run.setErrored
setErrored(st, err, t) ==
    updateStatus([st EXCEPT !.run.Error = err], Errored, t)

(***************************************************************************)
(* package pubsub: the broker.  A subscription is a bounded queue of       *)
(* events; an event published to a full queue is dropped for that          *)
(* subscriber, which has then not kept pace.                               *)
(***************************************************************************)
SubIds == {"sub1", "sub2"}

UpdatedEvent == "updated"

NoSub == [state |-> "none", since |-> 0, queue |-> <<>>, got |-> <<>>, lagged |-> FALSE]

\* A faulty variant of Publish: a canceled subscription is still served.
Publish_toCanceled(ss, ev) ==
    [s \in DOMAIN ss |->
        IF ss[s].state = "none" THEN ss[s]
        ELSE IF Len(ss[s].queue) >= QueueCap THEN [ss[s] EXCEPT !.lagged = TRUE]
        ELSE [ss[s] EXCEPT !.queue = Append(@, ev)]]

\* Broker.Publish: the event goes on the queue of every live subscription.
Publish(ss, ev) ==
    [s \in DOMAIN ss |->
        IF ss[s].state # "live" THEN ss[s]
        ELSE IF Len(ss[s].queue) >= QueueCap THEN [ss[s] EXCEPT !.lagged = TRUE]
        ELSE [ss[s] EXCEPT !.queue = Append(@, ev)]]

RECURSIVE PublishAll(_, _)
PublishAll(ss, evs) ==
    IF evs = <<>> THEN ss ELSE PublishAll(Publish(ss, Head(evs)), Tail(evs))

\* The callback the run service registers: publish the run (a pointer to it) as
\* an updated event.  n is the number of the transition that invoked it.
RunEvent(rec, n) == [type |-> UpdatedEvent, n |-> n]

RECURSIVE CallbackEvents(_, _)
CallbackEvents(fx, n) ==
    IF fx = <<>> THEN <<>>
    ELSE IF Head(fx).kind = "callback"
         THEN <<RunEvent(Head(fx), n)>> \o CallbackEvents(Tail(fx), n)
         ELSE CallbackEvents(Tail(fx), n)

(***************************************************************************)
(* The run and its callers.                                                *)
(***************************************************************************)
\* time.Now(): the clock does not go back between two calls.
Times == {now, now + 1}

InitRun ==
    /\ now = 0
    /\ \E cb \in {NoCallback, PublishCallback} :
           run = newRun([Name |-> "default", Module |-> "mod", AutoApply |-> FALSE],
                        [PlanOnly |-> FALSE, afterUpdate |-> cb],
                        [now |-> 0, id |-> "run-0", mkdirOk |-> TRUE]).run
    /\ effects = <<>>
    /\ calls = 0
    /\ last = [op |-> "newRun", status |-> Pending, err |-> Nil]

InitBroker == subs = [s \in SubIds |-> NoSub]

\* A call of r.updateStatus(status)
UpdateStatus ==
    /\ calls < MaxCalls
    /\ \E status \in Status, t \in Times :
        LET st == updateStatus([run |-> run, effects |-> <<>>], status, t)
        IN  /\ run' = st.run
            /\ effects' = st.effects
            /\ now' = t
            /\ calls' = calls + 1
            /\ last' = [op |-> "updateStatus", status |-> status, err |-> Nil]
            /\ subs' = PublishAll(subs, CallbackEvents(st.effects, calls + 1))
    /\ UNCHANGED <<schedVars, newVars, logVars, tblVars, resVars>>

\* A call of r.setErrored(err)
SetErrored ==
    /\ calls < MaxCalls
    /\ \E err \in Errors, t \in Times :
        LET st == setErrored([run |-> run, effects |-> <<>>], err, t)
        IN  /\ run' = st.run
            /\ effects' = st.effects
            /\ now' = t
            /\ calls' = calls + 1
            /\ last' = [op |-> "setErrored", status |-> Errored, err |-> err]
            /\ subs' = PublishAll(subs, CallbackEvents(st.effects, calls + 1))
    /\ UNCHANGED <<schedVars, newVars, logVars, tblVars, resVars>>

\* Broker.Subscribe(ctx)
Subscribe ==
    /\ \E s \in SubIds :
        /\ subs[s].state = "none"
        /\ subs' = [subs EXCEPT ![s] = [NoSub EXCEPT !.state = "live", !.since = calls]]
    /\ UNCHANGED <<runVars, schedVars, newVars, logVars, tblVars, resVars>>

\* The subscriber takes the next event off its channel.
Receive ==
    /\ \E s \in SubIds :
        /\ subs[s].state = "live"
        /\ subs[s].queue # <<>>
        /\ subs' = [subs EXCEPT ![s].queue = Tail(@),
                                ![s].got = Append(@, Head(subs[s].queue))]
    /\ UNCHANGED <<runVars, schedVars, newVars, logVars, tblVars, resVars>>

\* The subscriber's context is canceled: its queue is torn down.
Unsubscribe ==
    /\ \E s \in SubIds :
        /\ subs[s].state = "live"
        /\ subs' = [subs EXCEPT ![s].state = "canceled", ![s].queue = <<>>]
    /\ UNCHANGED <<runVars, schedVars, newVars, logVars, tblVars, resVars>>

(***************************************************************************)
(* package task: the scheduler.  S = [tasks, queue]: the tasks by id (ids  *)
(* are given in enqueue order) and the ids of the queued tasks in enqueue  *)
(* order.  A task records, when its process starts, which tasks of its     *)
(* exclusivity key had not yet reached a terminal state at that instant.   *)
(***************************************************************************)
TaskQueued == "task queued"

TaskRunning == "task running"

TaskFinished == "task finished"

TaskErrored == "task errored"

TaskCanceled == "task canceled"

TaskTerminal == {TaskFinished, TaskErrored, TaskCanceled}

\* The exclusivity keys (workspace ids); NoKey is a task without one.
NoKey == "none"

Keys == {"ws1", "ws2"}

NewTask(key) ==
    [ state          |-> TaskQueued,
      key            |-> key,
      openAtStart    |-> {},
      spawned        |-> 0,
      signaled       |-> FALSE,
      canceledQueued |-> FALSE ]

\* The other tasks of task id's exclusivity key that have not reached a
\* terminal state.
Open(S, id) ==
    {i \in DOMAIN S.tasks \ {id} :
        /\ S.tasks[id].key # NoKey
        /\ S.tasks[i].key = S.tasks[id].key
        /\ S.tasks[i].state \notin TaskTerminal
        /\ i < id}

\* The tasks that hold a concurrency slot.
Active(S) == {i \in DOMAIN S.tasks : S.tasks[i].state = TaskRunning}

\* The queue without its p-th entry.
Without(q, p) == SubSeq(q, 1, p - 1) \o SubSeq(q, p + 1, Len(q))

\* A faulty variant of Runnable: the exclusivity group is not looked at.
Runnable_anyKey(S, p) == p \in DOMAIN S.queue

\* The p-th queued task may be dispatched: it has no exclusivity key, or no task
\* of its key is running and it is the head of its key's queue.
Runnable(S, p) ==
    LET k == S.tasks[S.queue[p]].key
    IN  \/ k = NoKey
        \/ /\ \A i \in Active(S) : S.tasks[i].key # k
           /\ \A j \in 1..(p - 1) : S.tasks[S.queue[j]].key # k

\* A faulty variant of SlotFree: one task more than maxTasks is let in.
SlotFree_offByOne(S) == Cardinality(Active(S)) <= maxTasks

\* A concurrency slot is free.
SlotFree(S) == Cardinality(Active(S)) < maxTasks

\* Enqueue(descriptor, exclusivityKey): a new task, queued.
enqueue(S, key) ==
    LET id == Len(S.tasks) + 1
    IN  [ tasks |-> Append(S.tasks, NewTask(key)),
          queue |-> Append(S.queue, id) ]

\* Dispatch the first runnable task of the queue, if a slot is free; ok is
\* whether its process could be started.
dispatch(S, ok) ==
    LET ps == {p \in DOMAIN S.queue : Runnable(S, p)}
    IN  IF ~SlotFree(S) \/ ps = {} THEN S
        ELSE LET p  == CHOOSE x \in ps : \A y \in ps : x <= y
                 id == S.queue[p]
             IN  [ tasks |-> IF ok
                             THEN [S.tasks EXCEPT ![id].state = TaskRunning,
                                                  ![id].openAtStart = Open(S, id),
                                                  ![id].spawned = @ + 1]
                             ELSE [S.tasks EXCEPT ![id].state = TaskErrored],
                   queue |-> Without(S.queue, p) ]

\* The process of running task id exits: the task ends (canceled if it had been
\* signaled), its slot is released and the next runnable task is dispatched.
complete(S, id, outcome, ok) ==
    LET S1 == [S EXCEPT !.tasks[id].state = IF S.tasks[id].signaled THEN TaskCanceled ELSE outcome]
    IN  dispatch(S1, ok)

\* A faulty variant of cancel: a queued task is marked canceled and left in its queue.
cancel_leftInQueue(S, id) ==
    IF S.tasks[id].state = TaskQueued
    THEN [S EXCEPT !.tasks[id].state = TaskCanceled,
                   !.tasks[id].canceledQueued = TRUE]
    ELSE IF S.tasks[id].state = TaskRunning /\ ~S.tasks[id].signaled
    THEN [S EXCEPT !.tasks[id].signaled = TRUE]
    ELSE S

\* Cancel(taskID): a queued task leaves its queue and is canceled at once; a
\* running task's process is signaled; a second cancel changes nothing.
cancel(S, id) ==
    IF S.tasks[id].state = TaskQueued
    THEN [S EXCEPT !.tasks[id].state = TaskCanceled,
                   !.tasks[id].canceledQueued = TRUE,
                   !.queue = SelectSeq(S.queue, LAMBDA x : x # id)]
    ELSE IF S.tasks[id].state = TaskRunning /\ ~S.tasks[id].signaled
    THEN [S EXCEPT !.tasks[id].signaled = TRUE]
    ELSE S

Sched == [tasks |-> tasks, queue |-> queue]

SetSched(S) ==
    /\ tasks' = S.tasks
    /\ queue' = S.queue

Enqueue ==
    /\ Len(tasks) < NumTasks
    /\ \E key \in Keys \cup {NoKey} : SetSched(enqueue(Sched, key))
    /\ UNCHANGED <<runVars, subs, newVars, logVars, tblVars, resVars>>

Dispatch ==
    /\ \E ok \in BOOLEAN : SetSched(dispatch(Sched, ok))
    /\ UNCHANGED <<runVars, subs, newVars, logVars, tblVars, resVars>>

Exit ==
    /\ \E id \in Active(Sched), outcome \in {TaskFinished, TaskErrored}, ok \in BOOLEAN :
           SetSched(complete(Sched, id, outcome, ok))
    /\ UNCHANGED <<runVars, subs, newVars, logVars, tblVars, resVars>>

CancelTask ==
    /\ \E id \in DOMAIN tasks : SetSched(cancel(Sched, id))
    /\ UNCHANGED <<runVars, subs, newVars, logVars, tblVars, resVars>>

InitSched ==
    /\ tasks = <<>>
    /\ queue = <<>>

(***************************************************************************)
(* package logging: the Logger.  The bytes handed to Write are a sequence  *)
(* of logfmt records, possibly followed by text the decoder rejects; what   *)
(* matters of a record is whether time.Parse accepts its time value.       *)
(***************************************************************************)
Records == [time : {"ok", "bad"}]

Payloads == [records : UNION {[1..n -> Records] : n \in 0..MaxRecords}, malformed : BOOLEAN]

CreatedEvent == "created"

\* The loop over d.ScanRecord(): each record becomes a message carrying the
\* logger's serial, is published, and the serial is incremented; a time value
\* that does not parse returns at once.
RECURSIVE ScanRecords(_, _, _, _)
ScanRecords(serial, recs, msgs, pub) ==
    IF recs = <<>>
    THEN [serial |-> serial, msgs |-> msgs, pub |-> pub, err |-> Nil]
    ELSE LET msg == [serial |-> serial, Time |-> Head(recs).time]
         IN  IF Head(recs).time = "bad"
             THEN [serial |-> serial, msgs |-> msgs, pub |-> pub, err |-> "parsing time"]
             ELSE ScanRecords(serial + 1, Tail(recs), Append(msgs, msg),
                              Append(pub, [type |-> CreatedEvent, payload |-> msg]))

\* A faulty variant of Write: a call that returns an error puts the serial back
\* to what it was when the call began.
Write_serialRestored(l, p, fileOk) ==
    LET w  == ScanRecords(l.serial, p.records, <<>>, <<>>)
        l2 == [l EXCEPT !.serial = w.serial, !.Messages = @ \o w.msgs]
    IN  IF w.err # Nil
        THEN [logger |-> l, pub |-> w.pub, n |-> 0, err |-> w.err]
        ELSE IF p.malformed
        THEN [logger |-> l, pub |-> w.pub, n |-> 0, err |-> "logfmt syntax"]
        ELSE IF ~fileOk
        THEN [logger |-> [l EXCEPT !.Messages = @ \o w.msgs], pub |-> w.pub, n |-> 0, err |-> "file"]
        ELSE [logger |-> [l2 EXCEPT !.file = Append(@, p)], pub |-> w.pub,
              n |-> Len(p.records), err |-> Nil]

\* Logger.Write(p): what becomes of the logger, the events published on its
\* broker, and the returned (n, err).
Write(l, p, fileOk) ==
    LET w  == ScanRecords(l.serial, p.records, <<>>, <<>>)
        l1 == [l EXCEPT !.serial = w.serial]
        l2 == [l1 EXCEPT !.Messages = @ \o w.msgs]
    IN  IF w.err # Nil
        THEN [logger |-> l1, pub |-> w.pub, n |-> 0, err |-> w.err]
        ELSE IF p.malformed
        THEN [logger |-> l1, pub |-> w.pub, n |-> 0, err |-> "logfmt syntax"]
        ELSE IF ~fileOk
        THEN [logger |-> l2, pub |-> w.pub, n |-> 0, err |-> "file"]
        ELSE [logger |-> [l2 EXCEPT !.file = Append(@, p)], pub |-> w.pub,
              n |-> Len(p.records), err |-> Nil]

\* NewLogger
InitLog ==
    /\ logger = [serial |-> 0, Messages |-> <<>>, file |-> <<>>]
    /\ published = <<>>
    /\ wres = [n |-> 0, err |-> Nil, emitted |-> 0]
    /\ writes = 0

\* The slog handler calls l.Write(p), one call at a time.
WriteLog ==
    /\ writes < MaxWrites
    /\ \E p \in Payloads, fileOk \in BOOLEAN :
        LET res == Write(logger, p, fileOk)
        IN  /\ logger' = res.logger
            /\ published' = published \o res.pub
            /\ wres' = [n |-> res.n, err |-> res.err, emitted |-> Len(res.pub)]
            /\ writes' = writes + 1
    /\ UNCHANGED <<runVars, subs, schedVars, newVars, tblVars, resVars>>

(***************************************************************************)
(* package table: the table widget Model[K, V].  A table m is a record of  *)
(* the struct's fields; a map is a function on the set of its keys.  The   *)
(* value of an item carries the item's id and a text; the row renderer     *)
(* shows the text in the table's one column.  The table is built with a    *)
(* sort function, which orders values by their id.  The scroll offset kept *)
(* by the viewport of the bubbles library is not part of the model.        *)
(***************************************************************************)
TKeys == {"k1", "k2", "k3"}

Vals == {"a", "b"}

FilterValues == {"", "a"}

KeyOrder == <<"k1", "k2", "k3">>

NoMap == [k \in {} |-> [id |-> k, text |-> "a"]]

ItemMaps ==
    UNION {{[k \in D |-> [id |-> k, text |-> t[k]]] : t \in [D -> Vals]} : D \in SUBSET TKeys}

\* The orders in which a range over a map with keys D may visit them.
RECURSIVE Orders(_)
Orders(D) ==
    IF D = {} THEN {<<>>}
    ELSE UNION {{<<k>> \o o : o \in Orders(D \ {k})} : k \in D}

\* One of them: the sort below makes the rows the same for all.
RangeOrder(items) == CHOOSE o \in Orders(DOMAIN items) : TRUE

clamp(v, low, high) ==
    LET mx == IF v > low THEN v ELSE low
    IN  IF mx < high THEN mx ELSE high

\* strings.Contains(cell, filter), for values of one letter
Contains(v, f) == f = "" \/ v = f

\* slices.SortFunc(m.rows, ...) with a sort function that compares the ids
RECURSIVE SortRowsFrom(_, _)
SortRowsFrom(rows, i) ==
    IF i > Len(KeyOrder) THEN <<>>
    ELSE SelectSeq(rows, LAMBDA r : r.Value.id = KeyOrder[i]) \o SortRowsFrom(rows, i + 1)

SortRows(rows) == SortRowsFrom(rows, 1)

\* vpHeight is viewport.Height.
UpdateViewport(m) ==
    [m EXCEPT !.start = IF m.cursor >= 0 THEN clamp(m.cursor - m.vpHeight, 0, m.cursor) ELSE 0,
              !.end = clamp(m.cursor + m.vpHeight, m.cursor, Len(m.rows))]

\* The filter widget shows when it is in focus or has a value.
filterVisible(m) == m.filterFocus \/ m.filter # ""

setDimensions(m, width, height) ==
    UpdateViewport([m EXCEPT
        !.vpHeight = height - headerHeight - (IF filterVisible(m) THEN filterHeight ELSE 0),
        !.height = height,
        !.width = IF width > 80 THEN width ELSE 80])

\* New(columns, fn, width, height).WithSortFunc(...).WithSelectable(selectable),
\* with a height that leaves ViewHeight rows to the viewport
New(selectable) ==
    setDimensions([items |-> NoMap, rows |-> <<>>, cursor |-> 0, Selected |-> NoMap,
                   selectable |-> selectable, selectAll |-> FALSE, focus |-> TRUE,
                   filter |-> "", filterFocus |-> FALSE, start |-> 0, end |-> 0,
                   width |-> 0, height |-> 0, vpHeight |-> 0],
                  80, ViewHeight + headerHeight)

\* currentRow / Highlighted: the row under the cursor, if the cursor is on one
InRange(m) == m.cursor >= 0 /\ m.cursor < Len(m.rows)

NoRow == [Key |-> "", Value |-> [id |-> "", text |-> ""]]

currentRow(m) == IF InRange(m) THEN [row |-> m.rows[m.cursor + 1], ok |-> TRUE]
                 ELSE [row |-> NoRow, ok |-> FALSE]

Highlighted(m) == currentRow(m)

\* delete(map, k) and map[k] = v
MapDelete(f, k) == [x \in DOMAIN f \ {k} |-> f[x]]

MapPut(f, k, v) == [x \in DOMAIN f \cup {k} |-> IF x = k THEN v ELSE f[x]]

\* SetItems(items)
SetItems(m, items) ==
    LET keep  == SelectSeq(RangeOrder(items),
                           LAMBDA k : m.filter = "" \/ Contains(items[k].text, m.filter))
        app   == [i \in 1..Len(keep) |-> [Key |-> keep[i], Value |-> items[keep[i]]]]
        kept  == {keep[i] : i \in 1..Len(keep)}
        sel   == IF m.selectable
                 THEN [k \in kept \cap DOMAIN m.Selected |-> items[k]]
                 ELSE NoMap
        rows  == SortRows(app)
        cur   == IF m.cursor > Len(rows) - 1
                 THEN (IF Len(rows) - 1 > 0 THEN Len(rows) - 1 ELSE 0)
                 ELSE m.cursor
    IN  UpdateViewport([m EXCEPT !.items = items, !.rows = rows, !.Selected = sel,
                                 !.cursor = cur])

SetCursor(m, n) == UpdateViewport([m EXCEPT !.cursor = clamp(n, 0, Len(m.rows) - 1)])

MoveUp(m, n) == UpdateViewport([m EXCEPT !.cursor = clamp(m.cursor - n, 0, Len(m.rows) - 1)])

MoveDown(m, n) == UpdateViewport([m EXCEPT !.cursor = clamp(m.cursor + n, 0, Len(m.rows) - 1)])

GotoTop(m) == MoveUp(m, m.cursor)

GotoBottom(m) == MoveDown(m, Len(m.rows))

\* A faulty variant of ToggleSelection: selecting the current row drops the
\* selections made before.
ToggleSelection_dropsOthers(m) ==
    LET cur == currentRow(m)
    IN  IF ~m.selectable \/ ~cur.ok THEN m
        ELSE IF cur.row.Key \in DOMAIN m.Selected
        THEN UpdateViewport([m EXCEPT !.Selected = MapDelete(@, cur.row.Key)])
        ELSE UpdateViewport([m EXCEPT !.Selected = MapPut(NoMap, cur.row.Key, cur.row.Value)])

ToggleSelection(m) ==
    LET cur == currentRow(m)
    IN  IF ~m.selectable \/ ~cur.ok THEN m
        ELSE IF cur.row.Key \in DOMAIN m.Selected
        THEN UpdateViewport([m EXCEPT !.Selected = MapDelete(@, cur.row.Key)])
        ELSE UpdateViewport([m EXCEPT !.Selected = MapPut(@, cur.row.Key, cur.row.Value)])

ToggleSelectionByKey(m, key) ==
    IF ~m.selectable \/ key \notin DOMAIN m.items THEN m
    ELSE IF key \in DOMAIN m.Selected
    THEN UpdateViewport([m EXCEPT !.Selected = MapDelete(@, key)])
    ELSE UpdateViewport([m EXCEPT !.Selected = MapPut(@, key, m.items[key])])

DeselectAll(m) ==
    IF ~m.selectable THEN m
    ELSE UpdateViewport([m EXCEPT !.Selected = NoMap, !.selectAll = FALSE])

RowMap(rows) ==
    [k \in {rows[i].Key : i \in DOMAIN rows} |->
        (CHOOSE r \in {rows[i] : i \in DOMAIN rows} : r.Key = k).Value]

ToggleSelectAll(m) ==
    IF ~m.selectable THEN m
    ELSE IF m.selectAll THEN DeselectAll(m)
    ELSE UpdateViewport([m EXCEPT !.Selected = RowMap(m.rows), !.selectAll = TRUE])

\* The loop of SelectRange from row i on: the first row to select and the
\* number of rows to select.
RECURSIVE RangeScan(_, _, _)
RangeScan(m, i, first) ==
    IF i >= Len(m.rows) THEN [first |-> first, n |-> 0]
    ELSE IF i = m.cursor /\ first > -1 /\ first < m.cursor
    THEN [first |-> first, n |-> m.cursor - first + 1]
    ELSE IF m.rows[i + 1].Key \notin DOMAIN m.Selected
    THEN RangeScan(m, i + 1, first)
    ELSE IF i > m.cursor
    THEN [first |-> m.cursor, n |-> i - m.cursor]
    ELSE RangeScan(m, i + 1, i + 1)

RECURSIVE PutRows(_, _)
PutRows(sel, rows) ==
    IF rows = <<>> THEN sel
    ELSE PutRows(MapPut(sel, Head(rows).Key, Head(rows).Value), Tail(rows))

\* SelectRange(); the slice expression m.rows[first : first+n] panics when its
\* bounds are out of range.
SelectRange(m) ==
    IF ~m.selectable \/ DOMAIN m.Selected = {} THEN [m |-> m, panic |-> FALSE]
    ELSE LET s == RangeScan(m, 0, -1)
         IN  IF s.first < 0 \/ s.n < 0 \/ s.first + s.n > Len(m.rows)
             THEN [m |-> m, panic |-> TRUE]
             ELSE [m |-> UpdateViewport([m EXCEPT !.Selected =
                            PutRows(@, SubSeq(m.rows, s.first + 1, s.first + s.n))]),
                   panic |-> FALSE]

Focus(m) == UpdateViewport([m EXCEPT !.focus = TRUE])

Blur(m) == UpdateViewport([m EXCEPT !.focus = FALSE])

\* The key bindings Update handles.
KeyMsgs == {"LineUp", "LineDown", "PageUp", "PageDown", "HalfPageUp", "HalfPageDown",
            "GotoTop", "GotoBottom", "Select", "SelectAll", "SelectClear", "SelectRange"}

\* The messages by which the user filters: a key for the filter widget (value
\* is what the widget holds once it has taken the key), focus request, close.
FilterMsgs == {[type |-> "FilterKeyMsg", value |-> f] : f \in FilterValues}
                  \cup {[type |-> t, value |-> ""] :
                            t \in {"FilterFocusReqMsg", "FilterCloseMsg"}}

\* Window sizes, spinner ticks, the filter's blur message, and a message of no
\* type Update knows.
WindowSizes == {[Width |-> 80, Height |-> ViewHeight + headerHeight],
                [Width |-> 100, Height |-> ViewHeight + headerHeight + filterHeight]}

OtherMsgs == {[type |-> "WindowSizeMsg", size |-> z] : z \in WindowSizes}
                 \cup {[type |-> t, size |-> [Width |-> 0, Height |-> 0]] :
                           t \in {"TickMsg", "FilterBlurMsg", "BlinkMsg"}}

NoCmd == "nil"

Steady(m) == [m |-> m, panic |-> FALSE, cmd |-> NoCmd]

\* The switch of Update for a key message
UpdateKey(m, key) ==
    CASE key = "LineUp"       -> Steady(MoveUp(m, 1))
      [] key = "LineDown"     -> Steady(MoveDown(m, 1))
      [] key = "PageUp"       -> Steady(MoveUp(m, m.vpHeight))
      [] key = "PageDown"     -> Steady(MoveDown(m, m.vpHeight))
      [] key = "HalfPageUp"   -> Steady(MoveUp(m, m.vpHeight \div 2))
      [] key = "HalfPageDown" -> Steady(MoveDown(m, m.vpHeight \div 2))
      [] key = "GotoTop"      -> Steady(GotoTop(m))
      [] key = "GotoBottom"   -> Steady(GotoBottom(m))
      [] key = "Select"       -> Steady(ToggleSelection(m))
      [] key = "SelectAll"    -> Steady(ToggleSelectAll(m))
      [] key = "SelectClear"  -> Steady(DeselectAll(m))
      [] key = "SelectRange"  -> [m |-> SelectRange(m).m, panic |-> SelectRange(m).panic,
                                  cmd |-> NoCmd]

\* The switch of Update for the messages by which the user filters.  The
\* filter widget takes a key only while it is in focus.
UpdateFilter(m, msg) ==
    CASE msg.type = "FilterFocusReqMsg" ->
             [m |-> setDimensions([m EXCEPT !.filterFocus = TRUE], m.width, m.height),
              panic |-> FALSE, cmd |-> "FilterFocusAckMsg, blink"]
      [] msg.type = "FilterCloseMsg" ->
             LET closed == SetItems([m EXCEPT !.filterFocus = FALSE, !.filter = ""], m.items)
             IN  Steady(setDimensions(closed, closed.width, closed.height))
      [] msg.type = "FilterKeyMsg" ->
             [m |-> SetItems([m EXCEPT !.filter = IF m.filterFocus THEN msg.value ELSE @],
                             m.items),
              panic |-> FALSE,
              cmd |-> IF m.filterFocus THEN "filter" ELSE NoCmd]

\* The switch of Update for the other messages
UpdateOther(m, msg) ==
    CASE msg.type = "WindowSizeMsg" -> Steady(setDimensions(m, msg.size.Width, msg.size.Height))
      [] msg.type = "TickMsg"       -> Steady(UpdateViewport(m))
      [] msg.type = "FilterBlurMsg" -> Steady([m EXCEPT !.filterFocus = FALSE])
      [] OTHER -> [m |-> m, panic |-> FALSE,
                   cmd |-> IF m.filterFocus THEN "filter" ELSE NoCmd]

\* A faulty variant of Update: a blurred table handles messages all the same.
Update_whileBlurred(m, msg) ==
    IF msg.type = "KeyMsg" THEN UpdateKey(m, msg.key)
    ELSE IF msg.type \in {f.type : f \in FilterMsgs} THEN UpdateFilter(m, msg)
    ELSE UpdateOther(m, msg)

\* Update(msg): the model, the command returned, and whether it panicked
Update(m, msg) ==
    IF ~m.focus THEN Steady(m)
    ELSE IF msg.type = "KeyMsg" THEN UpdateKey(m, msg.key)
    ELSE IF msg.type \in {f.type : f \in FilterMsgs} THEN UpdateFilter(m, msg)
    ELSE UpdateOther(m, msg)

\* What tlast records of a method called on the table, and of an Update.
Called(op) == [op |-> op, panic |-> FALSE, cmd |-> NoCmd, update |-> FALSE]

Updated(op, res) == [op |-> op, panic |-> res.panic, cmd |-> res.cmd, update |-> TRUE]

InitTable ==
    /\ tbl = New(TRUE)
    /\ tlast = Called("New")

\* The parent model sets the table's items.
TableSetItems ==
    /\ ~tlast.panic
    /\ \E items \in ItemMaps : tbl' = SetItems(tbl, items)
    /\ tlast' = Called("SetItems")
    /\ UNCHANGED <<runVars, subs, schedVars, newVars, logVars, resVars>>

TableSetCursor ==
    /\ ~tlast.panic
    /\ \E n \in -1..Cardinality(TKeys) : tbl' = SetCursor(tbl, n)
    /\ tlast' = Called("SetCursor")
    /\ UNCHANGED <<runVars, subs, schedVars, newVars, logVars, resVars>>

TableToggleSelectionByKey ==
    /\ ~tlast.panic
    /\ \E k \in TKeys : tbl' = ToggleSelectionByKey(tbl, k)
    /\ tlast' = Called("ToggleSelectionByKey")
    /\ UNCHANGED <<runVars, subs, schedVars, newVars, logVars, resVars>>

TableFocus ==
    /\ ~tlast.panic
    /\ tbl' = IF tbl.focus THEN Blur(tbl) ELSE Focus(tbl)
    /\ tlast' = Called(IF tbl.focus THEN "Blur" ELSE "Focus")
    /\ UNCHANGED <<runVars, subs, schedVars, newVars, logVars, resVars>>

\* The table is handed a key message.
TableKey ==
    /\ ~tlast.panic
    /\ \E key \in KeyMsgs :
        LET res == Update(tbl, [type |-> "KeyMsg", key |-> key])
        IN  /\ tbl' = res.m
            /\ tlast' = Updated(key, res)
    /\ UNCHANGED <<runVars, subs, schedVars, newVars, logVars, resVars>>

\* The table is handed a filter message.
TableFilter ==
    /\ ~tlast.panic
    /\ \E msg \in FilterMsgs :
        LET res == Update(tbl, msg)
        IN  /\ tbl' = res.m
            /\ tlast' = Updated(msg.type, res)
    /\ UNCHANGED <<runVars, subs, schedVars, newVars, logVars, resVars>>

\* The table is handed a window size, a spinner tick, the filter's blur message
\* or another message.
TableOther ==
    /\ ~tlast.panic
    /\ \E msg \in OtherMsgs :
        LET res == Update(tbl, msg)
        IN  /\ tbl' = res.m
            /\ tlast' = Updated(msg.type, res)
    /\ UNCHANGED <<runVars, subs, schedVars, newVars, logVars, resVars>>

\* A focused table: its items are set, it is moved in, selected in, filtered.
NextTable ==
    \/ TableSetItems
    \/ TableSetCursor
    \/ TableToggleSelectionByKey
    \/ TableKey
    \/ TableFilter

\* A table with its items set, focused and blurred in turn, is handed messages.
NextUpdate ==
    \/ TableFocus
    \/ TableKey
    \/ TableFilter
    \/ TableOther

\* No run has been created through the lifecycle below.
(***************************************************************************)
(* package table (table.go): the table of resources Model[T].  An entity   *)
(* has an id and a content; the zero value of T has neither.  The sort     *)
(* function orders entities by id; for slices as short as the model's,     *)
(* slices.SortFunc is an insertion sort, which keeps equal elements in the *)
(* order they had.                                                         *)
(***************************************************************************)
RIds == <<"r1", "r2">>

Entities == [id : {RIds[i] : i \in DOMAIN RIds}, content : {"v1", "v2"}]

ZeroEntity == [id |-> "", content |-> ""]

\* The slices a BulkInsertMsg carries: none, one entity, two entities, the
\* same entity listed twice with the contents it had at two times
Bulks ==
    {<<>>} \cup {<<e>> : e \in Entities}
           \cup {<<[id |-> RIds[1], content |-> "v1"], [id |-> RIds[2], content |-> "v1"]>>,
                 <<[id |-> RIds[1], content |-> "v1"], [id |-> RIds[1], content |-> "v2"]>>}

NoEntities == [k \in {} |-> ZeroEntity]

RECURSIVE ResSortFrom(_, _)
ResSortFrom(items, i) ==
    IF i > Len(RIds) THEN <<>>
    ELSE SelectSeq(items, LAMBDA e : e.id = RIds[i]) \o ResSortFrom(items, i + 1)

\* maps.Values(m): the values of the map, here in the order of their ids
ResValues(f) ==
    LET ids == SelectSeq(RIds, LAMBDA k : k \in DOMAIN f)
    IN  [i \in DOMAIN ids |-> f[ids[i]]]

ResUpdateViewport(m) ==
    [m EXCEPT !.start = IF m.cursor >= 0 THEN clamp(m.cursor - resViewHeight, 0, m.cursor) ELSE 0,
              !.end = clamp(m.cursor + resViewHeight, m.cursor, Len(m.rows))]

\* New(columns).WithSortFunc(...)
ResNew ==
    ResUpdateViewport([items |-> NoEntities, rows |-> <<>>, cursor |-> 0,
                       Selected |-> NoEntities, selectable |-> TRUE, selectAll |-> FALSE,
                       focus |-> TRUE, start |-> 0, end |-> 0])

ResHighlighted(m) ==
    IF m.cursor < 0 \/ m.cursor >= Len(m.rows) THEN [entity |-> ZeroEntity, ok |-> FALSE]
    ELSE [entity |-> m.rows[m.cursor + 1].Entity, ok |-> TRUE]

ResHighlightedOrSelected(m) ==
    IF DOMAIN m.Selected # {} THEN m.Selected
    ELSE IF ResHighlighted(m).ok
    THEN MapPut(NoEntities, ResHighlighted(m).entity.id, ResHighlighted(m).entity)
    ELSE NoEntities

\* ToggleSelection: on selecting, what is stored is the entity the failed
\* lookup in Selected yielded, the zero value.
ResToggleSelection(m) ==
    LET h == ResHighlighted(m)
    IN  IF ~m.selectable \/ ~h.ok THEN m
        ELSE IF h.entity.id \in DOMAIN m.Selected
        THEN ResUpdateViewport([m EXCEPT !.Selected = MapDelete(@, h.entity.id)])
        ELSE ResUpdateViewport([m EXCEPT !.Selected = MapPut(@, h.entity.id, ZeroEntity)])

ResDeselectAll(m) ==
    IF ~m.selectable THEN m
    ELSE ResUpdateViewport([m EXCEPT !.Selected = NoEntities, !.selectAll = FALSE])

RECURSIVE ResPutAll(_, _)
ResPutAll(f, es) ==
    IF es = <<>> THEN f ELSE ResPutAll(MapPut(f, Head(es).id, Head(es)), Tail(es))

ResToggleSelectAll(m) ==
    IF ~m.selectable THEN m
    ELSE IF m.selectAll THEN ResDeselectAll(m)
    ELSE ResUpdateViewport([m EXCEPT
             !.Selected = ResPutAll(NoEntities, [i \in DOMAIN m.rows |-> m.rows[i].Entity]),
             !.selectAll = TRUE])

\* SetItems(items): one row per element of the slice, in sorted order; the
\* map of items and the selections carried over are filled in that order.
ResSetItems(m, items) ==
    LET sorted == ResSortFrom(items, 1)
        seen   == ResPutAll(NoEntities,
                            SelectSeq(sorted, LAMBDA e : m.selectable /\ e.id \in DOMAIN m.Selected))
    IN  ResUpdateViewport([m EXCEPT !.items = ResPutAll(NoEntities, sorted),
                                    !.rows = [i \in DOMAIN sorted |-> [Entity |-> sorted[i]]],
                                    !.Selected = seen])

ResMoveUp(m, n) ==
    ResUpdateViewport([m EXCEPT !.cursor = clamp(m.cursor - n, 0, Len(m.rows) - 1)])

ResMoveDown(m, n) ==
    ResUpdateViewport([m EXCEPT !.cursor = clamp(m.cursor + n, 0, Len(m.rows) - 1)])

ResKeyMsgs ==
    {"LineUp", "LineDown", "PageUp", "PageDown", "HalfPageUp", "HalfPageDown",
     "GotoTop", "GotoBottom", "Select", "SelectAll"}

ResEventTypes == {"created", "updated", "deleted"}

ResUpdateKey(m, key) ==
    CASE key = "LineUp"       -> ResMoveUp(m, 1)
      [] key = "LineDown"     -> ResMoveDown(m, 1)
      [] key = "PageUp"       -> ResMoveUp(m, resViewHeight)
      [] key = "PageDown"     -> ResMoveDown(m, resViewHeight)
      [] key = "HalfPageUp"   -> ResMoveUp(m, resViewHeight \div 2)
      [] key = "HalfPageDown" -> ResMoveDown(m, resViewHeight \div 2)
      [] key = "GotoTop"      -> ResMoveUp(m, m.cursor)
      [] key = "GotoBottom"   -> ResMoveDown(m, Len(m.rows))
      [] key = "Select"       -> ResToggleSelection(m)
      [] key = "SelectAll"    -> ResToggleSelectAll(m)

\* Update(msg): nothing while the table is out of focus
ResUpdate(m, msg) ==
    IF ~m.focus THEN m
    ELSE CASE msg.type = "KeyMsg" -> ResUpdateKey(m, msg.key)
           [] msg.type = "DeselectMsg" -> ResDeselectAll(m)
           [] msg.type = "BulkInsertMsg" ->
                ResSetItems(m, ResValues(m.items) \o msg.items)
           [] msg.type = "created" ->
                ResSetItems(m, Append(ResValues(m.items), msg.payload))
           [] msg.type = "updated" ->
                ResSetItems(m, ResValues(MapPut(m.items, msg.payload.id, msg.payload)))
           [] msg.type = "deleted" ->
                ResSetItems(m, ResValues(MapDelete(m.items, msg.payload.id)))

\* The ids of the entities of a slice
ResIds(es) == {es[i].id : i \in DOMAIN es}

InitRes ==
    /\ rtbl = ResNew
    /\ rlast = [op |-> "New", live |-> {}]

\* A key press reaches the table.
ResKey ==
    /\ \E key \in ResKeyMsgs :
          /\ rtbl' = ResUpdate(rtbl, [type |-> "KeyMsg", key |-> key])
          /\ rlast' = [rlast EXCEPT !.op = key]
    /\ UNCHANGED <<runVars, subs, schedVars, newVars, logVars, tblVars>>

\* The parent model asks the table to drop its selections.
ResDeselect ==
    /\ rtbl' = ResUpdate(rtbl, [type |-> "DeselectMsg"])
    /\ rlast' = [rlast EXCEPT !.op = "DeselectMsg"]
    /\ UNCHANGED <<runVars, subs, schedVars, newVars, logVars, tblVars>>

\* The entities a service lists arrive in one message.
ResBulkInsert ==
    /\ \E items \in Bulks :
          /\ rtbl' = ResUpdate(rtbl, [type |-> "BulkInsertMsg", items |-> items])
          /\ rlast' = [op |-> "BulkInsertMsg", live |-> rlast.live \cup ResIds(items)]
    /\ UNCHANGED <<runVars, subs, schedVars, newVars, logVars, tblVars>>

\* An event of a resource arrives, possibly one delivered before.
ResEvent ==
    /\ \E type \in ResEventTypes, payload \in Entities :
          /\ rtbl' = ResUpdate(rtbl, [type |-> type, payload |-> payload])
          /\ rlast' = [op |-> type,
                       live |-> IF type = "deleted" THEN rlast.live \ {payload.id}
                                ELSE rlast.live \cup {payload.id}]
    /\ UNCHANGED <<runVars, subs, schedVars, newVars, logVars, tblVars>>

NextRes ==
    \/ ResKey
    \/ ResDeselect
    \/ ResBulkInsert
    \/ ResEvent

InitNew ==
    /\ wsAuto = [w \in {"default", "dev"} |-> FALSE]
    /\ runs = <<>>
    /\ dirs = {}

Init == InitRun /\ InitBroker /\ InitSched /\ InitNew /\ InitLog /\ InitTable /\ InitRes

Next ==
    \/ UpdateStatus
    \/ SetErrored
    \/ Subscribe
    \/ Receive
    \/ Unsubscribe

Spec == Init /\ [][Next]_vars

\* The scheduler alone, beside a run that is left as constructed.
InitSchedOnly == Init /\ run.afterUpdate = PublishCallback

NextSched ==
    \/ Enqueue
    \/ Dispatch
    \/ Exit
    \/ CancelTask

SpecSched == InitSchedOnly /\ [][NextSched]_vars

(***************************************************************************)
(* The run's properties.                                                   *)
(***************************************************************************)
\* The terminal states of a run, as the design lists them.
TerminalStates == {PlannedAndFinished, Applied, Errored, Canceled, Discarded}

Callbacks(fx) == SelectSeq(fx, LAMBDA e : e.kind = "callback")

Logs(fx) == SelectSeq(fx, LAMBDA e : e.kind = "log")

\* C1: in every reachable state of a run, after any sequence of setErrored and
\* updateStatus calls, Error is non-nil if and only if Status is Errored.
C1_ErrorIffErrored == (run.Error # Nil) <=> (run.Status = Errored)

\* C2: once a run's Status is terminal (PlannedAndFinished, Applied, Errored,
\* Canceled, Discarded), no later updateStatus or setErrored call changes it.
C2_TerminalNeverTransitions ==
    [][run.Status \in TerminalStates => run'.Status = run.Status]_vars

\* C7: every updateStatus call on a run with a registered after-update callback
\* invokes the callback exactly once, within the call, after Status and Updated
\* have been written, so that the callback observes the new status; with no
\* callback registered the transition still completes.
C7_CallbackOnceAfterWrite ==
    calls > 0 =>
        /\ run.Status = last.status
        /\ run.Updated = now
        /\ IF run.afterUpdate # NoCallback
           THEN /\ Len(Callbacks(effects)) = 1
                /\ Callbacks(effects)[1].status = last.status
                /\ Callbacks(effects)[1].updated = now
           ELSE Callbacks(effects) = <<>>

C7_Witness ==
    /\ calls > 1
    /\ last.op = "updateStatus"
    /\ last.status = Planning
    /\ run.afterUpdate = PublishCallback
    /\ run.Updated > 0
    /\ Callbacks(effects) = <<CallbackRecord(run)>>

\* C8: Run.IsFinished returns true exactly when Status is one of the terminal
\* states PlannedAndFinished, Applied, Errored, Canceled, Discarded.
C8_IsFinishedIffTerminal == IsFinished(run) <=> run.Status \in TerminalStates

\* C9: a transition into any terminal state (Discarded included) emits exactly
\* one completion log record, after the after-update callback has run; a
\* transition into a non-terminal state emits none.
C9_CompletionLoggedOnce ==
    calls > 0 =>
        IF run.Status \in TerminalStates
        THEN /\ Len(Logs(effects)) = 1
             /\ effects[Len(effects)].kind = "log"
        ELSE Logs(effects) = <<>>

\* C10: entering Errored through setErrored(err) stores err on the run before
\* the status change is announced: the after-update callback that setErrored
\* invokes observes Status = Errored and Error = err.
C10_ErrorCapturedBeforeCallback ==
    last.op = "setErrored" =>
        \A i \in 1..Len(effects) :
            effects[i].kind = "callback" =>
                /\ effects[i].status = Errored
                /\ effects[i].error = last.err

C10_Witness ==
    /\ last.op = "setErrored"
    /\ last.err = "err2"
    /\ Callbacks(effects) # <<>>
    /\ Callbacks(effects)[1].error = "err2"

(***************************************************************************)
(* The broker's properties.                                                *)
(***************************************************************************)
\* The transitions a subscription holds an event of, received or still queued.
Seen(sub) == [i \in 1..(Len(sub.got) + Len(sub.queue)) |-> (sub.got \o sub.queue)[i].n]

\* The transitions made since the subscription was registered.
Since(sub) == [i \in 1..(calls - sub.since) |-> sub.since + i]

KeepsPace(sub) == sub.state = "live" /\ ~sub.lagged

C15_CanceledGetsNoLaterEvents ==
    [][\A s \in SubIds :
          /\ subs[s].state = "canceled" => subs'[s] = subs[s] /\ subs[s].queue = <<>>
          /\ ( /\ calls' # calls
               /\ run.afterUpdate = PublishCallback
               /\ subs[s].state = "live"
               /\ Len(subs[s].queue) < QueueCap )
             => subs'[s].queue = Append(subs[s].queue, [type |-> UpdatedEvent, n |-> calls'])]_vars

C15_Witness ==
    /\ run.afterUpdate = PublishCallback
    /\ calls = 3
    /\ subs["sub1"].state = "canceled"
    /\ subs["sub1"].since = 0
    /\ subs["sub1"].got = <<[type |-> UpdatedEvent, n |-> 1]>>
    /\ ~subs["sub1"].lagged
    /\ subs["sub2"].state = "live"
    /\ subs["sub2"].since = 2
    /\ Seen(subs["sub2"]) = <<3>>

(***************************************************************************)
(* The scheduler's properties.                                             *)
(***************************************************************************)
SameKey(a, b) == tasks[a].key # NoKey /\ tasks[a].key = tasks[b].key

\* C3: for any two tasks that share an exclusivity key, if A was enqueued before
\* B then A reaches a terminal state strictly before B begins execution, and at
\* no instant are two tasks of the same key executing.
C3_ExclusiveFifo ==
    \A a, b \in DOMAIN tasks :
        (a < b /\ SameKey(a, b)) =>
            /\ ~(tasks[a].state = TaskRunning /\ tasks[b].state = TaskRunning)
            /\ tasks[b].spawned > 0 =>
                   /\ tasks[a].state \in TaskTerminal
                   /\ a \notin tasks[b].openAtStart

C3_Witness ==
    \E a, b \in DOMAIN tasks :
        /\ a < b
        /\ SameKey(a, b)
        /\ tasks[a].state = TaskFinished
        /\ tasks[a].spawned = 1
        /\ tasks[b].state = TaskRunning
        /\ \E c \in DOMAIN tasks : ~SameKey(a, c) /\ tasks[c].state = TaskRunning

\* C4: in every reachable state of the scheduler the number of executing tasks
\* is at most the configured maxTasks.
C4_AtMostMaxTasks == Cardinality(Active(Sched)) <= maxTasks

C4_Witness ==
    /\ Cardinality(Active(Sched)) = maxTasks
    /\ \E p \in DOMAIN queue : Runnable(Sched, p)

\* C5: a task canceled while still queued is removed from its queue, is
\* Canceled, and never has a process started for it in any later step.
C5_CanceledQueuedNeverSpawns ==
    \A i \in DOMAIN tasks :
        tasks[i].canceledQueued =>
            /\ tasks[i].state = TaskCanceled
            /\ tasks[i].spawned = 0
            /\ \A p \in DOMAIN queue : queue[p] # i

C5_Witness ==
    \E i, j \in DOMAIN tasks :
        /\ tasks[i].canceledQueued
        /\ i < j
        /\ tasks[j].key = tasks[i].key
        /\ tasks[j].spawned = 1
        /\ tasks[j].state = TaskFinished
(***************************************************************************)
(* Creating runs and driving them through their lifecycle.  The run        *)
(* service (package run) is the caller of newRun, updateStatus and         *)
(* setErrored: it creates a run for a workspace, follows the transition    *)
(* rules of the run state machine and leaves a terminal run alone.         *)
(***************************************************************************)
WsNames == {"default", "dev"}

RunIds == <<"run-1", "run-2">>

\* The statuses the state machine lets a run move to by updateStatus.  A run
\* whose PlanOnly is set stops at Planned; otherwise a planned run is applied
\* when AutoApply is set or the user confirms.
Successors(r) ==
    LET step == CASE r.Status = Pending     -> {Scheduled}
                  [] r.Status = Scheduled   -> {PlanQueued}
                  [] r.Status = PlanQueued  -> {Planning}
                  [] r.Status = Planning    -> {Planned, PlannedAndFinished}
                  [] r.Status = Planned     -> IF r.PlanOnly THEN {} ELSE {ApplyQueued}
                  [] r.Status = ApplyQueued -> {Applying}
                  [] r.Status = Applying    -> {Applied}
                  [] OTHER                  -> {}
    IN  IF r.Status \in TerminalStates THEN {} ELSE step \cup {Canceled, Discarded}

InitCreate ==
    /\ InitRun /\ run.afterUpdate = PublishCallback
    /\ InitBroker
    /\ InitSched
    /\ wsAuto \in [WsNames -> BOOLEAN]
    /\ runs = <<>>
    /\ dirs = {}
    /\ InitLog
    /\ InitRes
    /\ InitTable

\* The service creates a run for workspace w.
CreateRun ==
    /\ Len(runs) < Len(RunIds)
    /\ \E w \in WsNames, planOnly \in BOOLEAN, ok \in BOOLEAN :
        LET ws   == [Name |-> w, Module |-> "mod", AutoApply |-> wsAuto[w]]
            opts == [PlanOnly |-> planOnly, afterUpdate |-> PublishCallback]
            res  == newRun(ws, opts, [now |-> 0, id |-> RunIds[Len(runs) + 1], mkdirOk |-> ok])
        IN  /\ runs' = Append(runs, [ws |-> ws, opts |-> opts, run |-> res.run,
                                     err |-> res.err, effects |-> res.effects,
                                     last |-> "newRun"])
            /\ dirs' = dirs \cup res.mkdir
    /\ UNCHANGED <<runVars, subs, schedVars, wsAuto, logVars, tblVars, resVars>>

\* The workspace's AutoApply flag is changed.
SetAutoApply ==
    /\ \E w \in WsNames : wsAuto' = [wsAuto EXCEPT ![w] = ~@]
    /\ UNCHANGED <<runVars, subs, schedVars, runs, dirs, logVars, tblVars, resVars>>

\* The service moves run i on by updateStatus.
Advance ==
    /\ \E i \in DOMAIN runs :
        /\ runs[i].err = Nil
        /\ \E status \in Successors(runs[i].run) :
            LET st == updateStatus([run |-> runs[i].run, effects |-> <<>>], status,
                                   runs[i].run.Updated + 1)
            IN  runs' = [runs EXCEPT ![i].run = st.run, ![i].effects = st.effects,
                                     ![i].last = "updateStatus"]
    /\ UNCHANGED <<runVars, subs, schedVars, wsAuto, dirs, logVars, tblVars, resVars>>

\* The service records a failure of run i by setErrored.
Fail ==
    /\ \E i \in DOMAIN runs :
        /\ runs[i].err = Nil
        /\ runs[i].run.Status \notin TerminalStates
        /\ \E err \in Errors :
            LET st == setErrored([run |-> runs[i].run, effects |-> <<>>], err,
                                 runs[i].run.Updated + 1)
            IN  runs' = [runs EXCEPT ![i].run = st.run, ![i].effects = st.effects,
                                     ![i].last = "setErrored"]
    /\ UNCHANGED <<runVars, subs, schedVars, wsAuto, dirs, logVars, tblVars, resVars>>

NextCreate ==
    \/ CreateRun
    \/ SetAutoApply
    \/ Advance
    \/ Fail

SpecCreate == InitCreate /\ [][NextCreate]_vars

\* The runs that newRun returned.
Created == {i \in DOMAIN runs : runs[i].err = Nil}

\* C11: a run created with PlanOnly = true never reaches ApplyQueued, Applying
\* or Applied.
C11_PlanOnlyNeverApplies ==
    \A i \in Created :
        runs[i].opts.PlanOnly => runs[i].run.Status \notin {ApplyQueued, Applying, Applied}

\* C12: every run returned by newRun has Status Pending and a nil Error, and
\* newRun itself does not invoke the after-update callback.
C12_NewRunPendingNoCallback ==
    \A i \in Created :
        runs[i].last = "newRun" =>
            /\ runs[i].run.Status = Pending
            /\ runs[i].run.Error = Nil
            /\ Callbacks(runs[i].effects) = <<>>

C12_Witness ==
    \E i \in Created :
        /\ runs[i].last = "newRun"
        /\ runs[i].run.afterUpdate = PublishCallback
        /\ runs[i].run.ID = "run-2"

\* C13: a run's AutoApply equals its workspace's AutoApply at the moment newRun
\* was called; later status transitions and later changes of the workspace's
\* flag leave it unchanged.
C13_AutoApplyCopiedAtCreation ==
    \A i \in Created : runs[i].run.AutoApply = runs[i].ws.AutoApply

C13_Witness ==
    \E i \in Created :
        /\ runs[i].run.AutoApply
        /\ ~wsAuto[runs[i].ws.Name]
        /\ runs[i].run.Status = Applied

\* C14: two runs with distinct identifiers never have the same PugDirectory,
\* a run's PugDirectory is made of its workspace's name and its identifier,
\* its PlanPath lies inside its PugDirectory, and the directory was created.
IsPrefix(p, q) == Len(p) < Len(q) /\ SubSeq(q, 1, Len(p)) = p

C14_PugDirectoryPerRun ==
    \A i \in Created :
        LET r == runs[i].run
        IN  /\ \A j \in Created :
                runs[j].run.ID # r.ID => PugDirectory(runs[j].run) # PugDirectory(r)
            /\ PugDirectory(r) = <<".pug", runs[i].ws.Name, r.ID>>
            /\ IsPrefix(PugDirectory(r), PlanPath(r))
            /\ Join(ModulePath(r), PugDirectory(r)) \in dirs

C14_Witness ==
    /\ Cardinality(Created) = 2
    /\ runs[1].ws.Name = runs[2].ws.Name
    /\ runs[1].run.ID # runs[2].run.ID
    /\ Cardinality(dirs) = 2

\* C25: the PlanOnly option given to newRun is carried onto the run it returns.
C25_PlanOnlyCarried ==
    \A i \in Created : runs[i].run.PlanOnly = runs[i].opts.PlanOnly

\* C26: when creating the run's directory fails, newRun returns the error and
\* no run, and the after-update callback is not invoked for that attempt, then
\* or later.
C26_MkdirFailureReturnsNoRun ==
    \A i \in DOMAIN runs :
        runs[i].err # Nil =>
            /\ runs[i].run = NoRun
            /\ Callbacks(runs[i].effects) = <<>>
            /\ runs[i].last = "newRun"

C26_Witness ==
    /\ Len(runs) = 2
    /\ runs[1].err = "mkdir"
    /\ runs[1].opts.afterUpdate = PublishCallback
    /\ runs[2].err = Nil
    /\ runs[2].run.Status = Planning

(***************************************************************************)
(* The logger alone.                                                       *)
(***************************************************************************)
InitLogOnly == Init /\ run.afterUpdate = PublishCallback

NextLog == WriteLog

SpecLog == InitLogOnly /\ [][NextLog]_vars

Serials(evs) == [i \in DOMAIN evs |-> evs[i].payload.serial]

StrictlyIncreasing(q) == \A i, j \in DOMAIN q : i < j => q[i] < q[j]

\* C17: over any sequence of Write calls, failing ones included, the messages
\* the logger emits carry serials that strictly increase in emission order, so
\* no two messages share one; the same holds of the messages it stores.
C17_SerialsStrictlyIncrease ==
    /\ StrictlyIncreasing(Serials(published))
    /\ StrictlyIncreasing([i \in DOMAIN logger.Messages |-> logger.Messages[i].serial])
    /\ \A i \in DOMAIN published : published[i].payload.serial < logger.serial

C17_Witness ==
    /\ writes = 3
    /\ wres.err = Nil
    /\ wres.emitted > 0
    /\ Len(logger.Messages) < Len(published)
    /\ Len(logger.Messages) > wres.emitted

\* C24: after any sequence of Write calls the messages published as created
\* events are the messages stored in Messages, in the same order and each
\* once, and a Write that returned an error has published and stored none.
C24_PublishedEqualsStored ==
    /\ [i \in DOMAIN published |-> published[i].payload] = logger.Messages
    /\ wres.err # Nil => wres.emitted = 0

(***************************************************************************)
(* The table alone, selectable or not.                                     *)
(***************************************************************************)
InitTableOnly ==
    /\ InitRun /\ run.afterUpdate = PublishCallback
    /\ InitBroker
    /\ InitSched
    /\ InitNew
    /\ InitLog
    /\ InitRes
    /\ \E selectable \in BOOLEAN : tbl = New(selectable)
    /\ tlast = Called("New")

SpecTable == InitTableOnly /\ [][NextTable]_vars

\* C18: whenever the table has at least one row the cursor is on a row,
\* 0 <= cursor < len(rows), and Highlighted returns that row.
C18_CursorOnARow ==
    Len(tbl.rows) >= 1 => InRange(tbl) /\ Highlighted(tbl).ok

\* The rows (counted from 0) whose key is selected.
SelectedRows(m) == {i \in 0..(Len(m.rows) - 1) : m.rows[i + 1].Key \in DOMAIN m.Selected}

Max(S) == CHOOSE x \in S : \A y \in S : y <= x

Min(S) == CHOOSE x \in S : \A y \in S : x <= y

RowsSelected(m, from, to) == \A i \in from..to : m.rows[i + 1].Key \in DOMAIN m.Selected

\* C19: SelectRange with the cursor on a row: with a selected row above the
\* current row, the rows from that row down to the current row are selected
\* afterwards; otherwise, with a selected row below the current row, the rows
\* from the current row to that row are; with no row selected nothing changes.
C19_SelectRangeSelectsBetween ==
    [][( /\ tlast'.op = "SelectRange"
         /\ tbl.focus /\ tbl.selectable /\ InRange(tbl) )
       => LET above == {i \in SelectedRows(tbl) : i < tbl.cursor}
              below == {i \in SelectedRows(tbl) : i > tbl.cursor}
          IN  /\ DOMAIN tbl.Selected = {} => tbl' = tbl
              /\ above # {} => RowsSelected(tbl', Max(above), tbl.cursor)
              /\ (above = {} /\ below # {}) => RowsSelected(tbl', tbl.cursor, Min(below))]_vars

\* C20: in a selectable table with at least one row, ToggleSelectAll called
\* when no row is selected selects every row, and called when every row is
\* selected deselects every row.
C20_ToggleSelectAllToggles ==
    [][( /\ tlast'.op = "SelectAll"
         /\ tbl.focus /\ tbl.selectable /\ Len(tbl.rows) >= 1 )
       => /\ DOMAIN tbl.Selected = {}
               => RowsSelected(tbl', 0, Len(tbl.rows) - 1)
          /\ RowsSelected(tbl, 0, Len(tbl.rows) - 1)
               => DOMAIN tbl'.Selected = {}]_vars

\* C21: every selected key is the key of an item of the table, and SetItems
\* keeps exactly the selections whose key still has an item, with the item's
\* new value.
C21_SelectedAreItems ==
    [][/\ DOMAIN tbl'.Selected \subseteq DOMAIN tbl'.items
       /\ (tlast'.op \in {"SetItems", "FilterKeyMsg", "FilterCloseMsg"}
              /\ tbl.focus /\ tbl.selectable)
          => /\ DOMAIN tbl'.Selected = DOMAIN tbl.Selected \cap DOMAIN tbl'.items
             /\ \A k \in DOMAIN tbl'.Selected : tbl'.Selected[k] = tbl'.items[k]]_vars

\* C28: in a selectable table with the cursor on a row, ToggleSelection flips
\* whether the current row's key is selected and leaves every other selection
\* as it was, and a second call puts the set of selected keys back; with the
\* cursor on no row, or in a table that is not selectable, it changes nothing.
C28_ToggleSelectionFlipsCurrent ==
    [][(tlast'.op = "Select" /\ tbl.focus)
       => IF tbl.selectable /\ InRange(tbl)
          THEN LET k == currentRow(tbl).row.Key
               IN  /\ (k \in DOMAIN tbl'.Selected) = (k \notin DOMAIN tbl.Selected)
                   /\ DOMAIN tbl'.Selected \ {k} = DOMAIN tbl.Selected \ {k}
                   /\ \A x \in DOMAIN tbl'.Selected \ {k} : tbl'.Selected[x] = tbl.Selected[x]
                   /\ k \in DOMAIN tbl'.Selected => tbl'.Selected[k] = currentRow(tbl).row.Value
                   /\ DOMAIN ToggleSelection(tbl').Selected = DOMAIN tbl.Selected
                   /\ tbl'.cursor = tbl.cursor /\ tbl'.rows = tbl.rows
          ELSE tbl' = tbl]_vars

C28_Witness ==
    /\ tlast.op = "Select"
    /\ tbl.selectable /\ tbl.focus
    /\ Len(tbl.rows) = 3
    /\ tbl.cursor = 1
    /\ DOMAIN tbl.Selected = {tbl.rows[1].Key, tbl.rows[2].Key}

(***************************************************************************)
(* The table, an item set for every key, in and out of focus.              *)
(***************************************************************************)
InitUpdate ==
    /\ InitRun /\ run.afterUpdate = PublishCallback
    /\ InitBroker
    /\ InitSched
    /\ InitNew
    /\ InitLog
    /\ InitRes
    /\ \E items \in {i \in ItemMaps : DOMAIN i = TKeys} : tbl = SetItems(New(TRUE), items)
    /\ tlast = Called("SetItems")

SpecUpdate == InitUpdate /\ [][NextUpdate]_vars

\* C22: while the table is blurred, Update with any message returns the model
\* as it was (cursor, Selected, rows, items, filter value and dimensions
\* included) and no command.
C22_BlurredUpdateChangesNothing ==
    [][(tlast'.update /\ ~tbl.focus)
       => tbl' = tbl /\ tlast'.cmd = NoCmd /\ ~tlast'.panic]_vars

C22_Witness ==
    /\ ~tbl.focus
    /\ tlast.update
    /\ tlast.op = "WindowSizeMsg"
    /\ tbl.width = 80
    /\ tbl.filter = "a" /\ tbl.filterFocus
    /\ tbl.cursor = 1
    /\ DOMAIN tbl.Selected # {}

(***************************************************************************)
(* The table of resources alone, in focus as New builds it (nothing in the *)
(* repository blurs it), receiving keys, bulk inserts and events.          *)
(***************************************************************************)
InitResOnly == Init /\ run.afterUpdate = PublishCallback

SpecRes == InitResOnly /\ [][NextRes]_vars

\* The ids of the entities of the table's rows, in row order
ResRowIds == [i \in DOMAIN rtbl.rows |-> rtbl.rows[i].Entity.id]

\* C23: after any sequence of BulkInsert, Created, Updated and Deleted events,
\* one delivered twice included, the table has exactly one row per distinct
\* item id, as many rows as items, and its items are exactly the ids created
\* or updated and not deleted since.
C23_OneRowPerItem ==
    /\ \A i, j \in DOMAIN rtbl.rows : ResRowIds[i] = ResRowIds[j] => i = j
    /\ Len(rtbl.rows) = Cardinality(DOMAIN rtbl.items)
    /\ {ResRowIds[i] : i \in DOMAIN rtbl.rows} = DOMAIN rtbl.items
    /\ DOMAIN rtbl.items = rlast.live

\* C27: when ToggleSelection selects the highlighted row, Selected maps the
\* row's id to the highlighted entity, and HighlightedOrSelected then returns
\* that entity for the id.
C27_SelectStoresHighlighted ==
    [][(/\ rlast'.op = "Select"
        /\ rtbl.focus /\ rtbl.selectable
        /\ ResHighlighted(rtbl).ok
        /\ ResHighlighted(rtbl).entity.id \notin DOMAIN rtbl.Selected)
       => LET h == ResHighlighted(rtbl).entity
          IN  /\ h.id \in DOMAIN rtbl'.Selected
              /\ rtbl'.Selected[h.id] = h
              /\ h.id \in DOMAIN ResHighlightedOrSelected(rtbl')
              /\ ResHighlightedOrSelected(rtbl')[h.id] = h]_vars

====
